---- MODULE Spec2Model ----
(***************************************************************************)
(* Model of src/src/utils/crypto.ts: the hybrid encrypt-and-sign protocol   *)
(* (single recipient and multi recipient) built on elliptic (secp256k1)     *)
(* and crypto-js (AES-CBC, SHA-256, MD5, Base64, Hex, Utf8).                *)
(*                                                                         *)
(* The library primitives are computed on a small scale:                   *)
(*  - the curve is y^2 = x^3 + 7 (the secp256k1 equation) over the field of *)
(*    43 elements; its group has prime order 31, as secp256k1's has prime  *)
(*    order, so private keys are 1..30 and k and 31-k have public points   *)
(*    with the same x coordinate;                                          *)
(*  - the block cipher works on blocks of one byte with keys of two bytes  *)
(*    (AES: 16 and 32), in CBC mode, the chaining XOR being addition       *)
(*    modulo 256;                                                          *)
(*  - SHA-256, MD5 and ECDSA are ideal: the digests are injective and a    *)
(*    signature verifies exactly when it is the one the matching private   *)
(*    key produces for that digest;                                        *)
(*  - a Base64 character stands for one unit (not six bits): the character *)
(*    of unit v is B64Base + v, and every smaller number is a character    *)
(*    outside the alphabet.                                                *)
(***************************************************************************)
EXTENDS Integers, Sequences, FiniteSets, TLC

(***************************************************************************)
(* Bounds of the model.                                                     *)
(***************************************************************************)
MaxRecipients == 2    \* longest recipient list passed to the multi-recipient seal
MaxLen == 1           \* longest plaintext, in characters
MaxCalls == 3         \* calls of the exported functions in one run of the library

(***************************************************************************)
(* Curve primitives (elliptic, secp256k1).                                  *)
(***************************************************************************)
CurveP == 43
CurveB == 7
CurveN == 31
CurveG == <<2, 12>>
Infinity == <<-1, -1>>

RECURSIVE PowMod(_, _, _)
PowMod(a, e, m) ==
  IF e = 0 THEN 1
  ELSE IF e % 2 = 1 THEN (a * PowMod(a, e - 1, m)) % m
  ELSE LET h == PowMod(a, e \div 2, m) IN (h * h) % m

ModP(a) == ((a % CurveP) + CurveP) % CurveP
InvP(a) == PowMod(ModP(a), CurveP - 2, CurveP)

PointAdd(P, Q) ==
  IF P = Infinity THEN Q
  ELSE IF Q = Infinity THEN P
  ELSE IF P[1] = Q[1] /\ ModP(P[2] + Q[2]) = 0 THEN Infinity
  ELSE LET l == IF P = Q THEN ModP(3 * P[1] * P[1] * InvP(2 * P[2]))
                ELSE ModP((Q[2] - P[2]) * InvP(Q[1] - P[1]))
           x == ModP(l * l - P[1] - Q[1])
       IN <<x, ModP(l * (P[1] - x) - P[2])>>

RECURSIVE PointMul(_, _)
PointMul(k, P) ==
  IF k = 0 THEN Infinity
  ELSE IF k % 2 = 1 THEN PointAdd(P, PointMul(k - 1, P))
  ELSE LET h == PointMul(k \div 2, P) IN PointAdd(h, h)

\* k * G for every scalar, computed once
GTable == [k \in 0..(CurveN - 1) |-> PointMul(k, CurveG)]
CurvePoints == {GTable[k] : k \in 1..(CurveN - 1)}

\* the key pairs in play (1 and 30 = -1 have public points with the same x),
\* the one that seals, and the outcomes of ec.genKeyPair() for the ephemeral
\* key
PrivKeys == {1, 2, CurveN - 1}
SenderKeys == {2}
EphKeys == {5, 7}

\* d * Q for every private key, computed once
MulTable == [d \in 1..(CurveN - 1) |-> [Q \in CurvePoints |-> PointMul(d, Q)]]

\* getPublic(true, 'hex'): the compressed encoding, 02 or 03 by the parity of
\* y, then x
Compress(P) == <<2 + (P[2] % 2), P[1]>>
PublicOf(priv) == Compress(GTable[priv])
\* ec.keyFromPublic(hex, 'hex'): the point of a compressed encoding, when
\* there is one
OnCurve(x, y) == ModP(y * y - x * x * x - CurveB) = 0
ValidPublic(pub) ==
  /\ Len(pub) = 2
  /\ pub[1] \in {2, 3}
  /\ \E y \in 0..(CurveP - 1) : OnCurve(pub[2], y) /\ y % 2 = pub[1] - 2
Decompress(pub) ==
  <<pub[2], CHOOSE y \in 0..(CurveP - 1) : OnCurve(pub[2], y) /\ y % 2 = pub[1] - 2>>

\* derive, had it multiplied the base point instead of the peer's point
deriveBasePoint(priv, point) == GTable[priv][1]
\* keyPair.derive(point): the x coordinate of priv * point
derive(priv, point) == MulTable[priv][point][1]

generateKeyPair(priv) == [privateKey |-> priv, publicKey |-> PublicOf(priv)]
getKeyPairFromPrivateKey(privateKey) ==
  [privateKey |-> privateKey, publicKey |-> PublicOf(privateKey)]

\* the public keys of the key pairs in play
PubKeys == {generateKeyPair(d).publicKey : d \in PrivKeys}

\* strings ec.keyFromPublic(publicKey, 'hex') throws on: a compressed encoding
\* whose x is the x of no point of the curve ('invalid point'), and one cut
\* short ('Unknown point format')
OffCurveKey == <<2, CHOOSE x \in 0..(CurveP - 1) : \A y \in 0..(CurveP - 1) : ~OnCurve(x, y)>>
TruncatedKey == <<2>>
InvalidKeys == {OffCurveKey, TruncatedKey}

(***************************************************************************)
(* Encodings (crypto-js enc.Hex, enc.Utf8, enc.Base64).                     *)
(***************************************************************************)
SecretHexLen == 4     \* padStart(64, '0'): two hex digits per key byte
B64Base == 64         \* the Base64 character of unit v is B64Base + v
PadChar == 61         \* '=', the Base64 padding character
BangChar == 33        \* '!', a character outside the Base64 alphabet

\* BN.toString(16): the hex digits of n, most significant first
RECURSIVE ToHex(_)
ToHex(n) == IF n < 16 THEN <<n>> ELSE Append(ToHex(n \div 16), n % 16)

\* String.padStart(width, '0')
padStart(str, width) ==
  IF Len(str) >= width THEN str
  ELSE [i \in 1..(width - Len(str)) |-> 0] \o str

\* CryptoJS.enc.Hex.parse: one byte per two hex digits
HexParse(hex) == [i \in 1..(Len(hex) \div 2) |-> 16 * hex[2 * i - 1] + hex[2 * i]]

\* CryptoJS.enc.Utf8.parse of one character (code points below 2048)
Utf8Char(c) == IF c < 128 THEN <<c>> ELSE <<192 + (c \div 64), 128 + (c % 64)>>

RECURSIVE Utf8Parse(_)
Utf8Parse(str) == IF str = <<>> THEN <<>> ELSE Utf8Char(Head(str)) \o Utf8Parse(Tail(str))

\* CryptoJS.enc.Utf8.stringify: the characters of a byte sequence, or
\* Malformed when the bytes are no UTF-8 ('Malformed UTF-8 data' is thrown)
Malformed == <<-1>>
RECURSIVE Utf8Stringify(_)
Utf8Stringify(bytes) ==
  IF bytes = <<>> THEN <<>>
  ELSE IF bytes[1] < 128
       THEN LET rest == Utf8Stringify(Tail(bytes))
            IN IF rest = Malformed THEN Malformed ELSE <<bytes[1]>> \o rest
  ELSE IF /\ bytes[1] >= 194 /\ bytes[1] < 224 /\ Len(bytes) >= 2
          /\ bytes[2] >= 128 /\ bytes[2] < 192
       THEN LET rest == Utf8Stringify(Tail(Tail(bytes)))
            IN IF rest = Malformed THEN Malformed
               ELSE <<(bytes[1] - 192) * 64 + (bytes[2] - 128)>> \o rest
  ELSE Malformed

\* CryptoJS.enc.Base64.stringify
Base64Stringify(bytes) == [i \in 1..Len(bytes) |-> B64Base + bytes[i]]

\* CryptoJS.enc.Base64.parse: the text is cut at its first padding character,
\* and a character outside the alphabet has no entry in the reverse map, so
\* that it contributes the bits of zero
PadIndex(text) ==
  IF \E i \in 1..Len(text) : text[i] = PadChar
  THEN CHOOSE i \in 1..Len(text) : text[i] = PadChar /\ \A j \in 1..(i - 1) : text[j] # PadChar
  ELSE Len(text) + 1
Base64Parse(text) ==
  [i \in 1..(PadIndex(text) - 1) |-> IF text[i] >= B64Base THEN text[i] - B64Base ELSE 0]

(***************************************************************************)
(* Symmetric codec (CryptoJS.AES, mode CBC, iv = the first block of the     *)
(* key, padding Pkcs7 or NoPadding).                                       *)
(***************************************************************************)
BlockBytes == 1

\* iv: CryptoJS.lib.WordArray.create(key.words.slice(0, 4))
IvOf(key) == IF Len(key) >= 1 THEN key[1] ELSE 0

KeyShift(key) ==
  1 + (IF Len(key) >= 1 THEN 64 * key[1] ELSE 0) + (IF Len(key) >= 2 THEN key[2] ELSE 0)
BlockEncrypt(key, b) == (b + KeyShift(key)) % 256
BlockDecrypt(key, c) == (((c - KeyShift(key)) % 256) + 256) % 256

RECURSIVE CbcEncrypt(_, _, _)
CbcEncrypt(key, prev, blocks) ==
  IF blocks = <<>> THEN <<>>
  ELSE LET c == BlockEncrypt(key, (Head(blocks) + prev) % 256)
       IN <<c>> \o CbcEncrypt(key, c, Tail(blocks))

RECURSIVE CbcDecrypt(_, _, _)
CbcDecrypt(key, prev, blocks) ==
  IF blocks = <<>> THEN <<>>
  ELSE <<(((BlockDecrypt(key, Head(blocks)) - prev) % 256) + 256) % 256>>
       \o CbcDecrypt(key, Head(blocks), Tail(blocks))

\* CryptoJS.pad.Pkcs7.pad: n bytes of value n, n = blockSize - len % blockSize
Pkcs7Pad(bytes) ==
  LET n == BlockBytes - (Len(bytes) % BlockBytes) IN bytes \o [i \in 1..n |-> n]
\* CryptoJS.pad.Pkcs7.unpad: sigBytes -= (the last byte), with no check of the
\* padding bytes
Pkcs7Unpad(bytes) ==
  IF bytes = <<>> THEN <<>>
  ELSE LET n == bytes[Len(bytes)] % 256
       IN IF n >= Len(bytes) THEN <<>> ELSE SubSeq(bytes, 1, Len(bytes) - n)

\* CryptoJS.AES.encrypt(message, key, {iv, mode: CBC, padding}).toString()
AesEncrypt(bytes, key, pkcs7) ==
  Base64Stringify(CbcEncrypt(key, IvOf(key), IF pkcs7 THEN Pkcs7Pad(bytes) ELSE bytes))
\* CryptoJS.AES.decrypt(ciphertext, key, {iv, mode: CBC, padding})
AesDecrypt(text, key, pkcs7) ==
  LET plain == CbcDecrypt(key, IvOf(key), Base64Parse(text))
  IN IF pkcs7 THEN Pkcs7Unpad(plain) ELSE plain

\* ephemeral.derive(...) then
\* CryptoJS.enc.Hex.parse(sharedSecret.toString(16).padStart(64, '0'))
sharedSecretKey(priv, pub) ==
  HexParse(padStart(ToHex(derive(priv, Decompress(pub))), SecretHexLen))

(***************************************************************************)
(* Digest and signature (CryptoJS.SHA256, ec sign / verify, DER, Base64).   *)
(***************************************************************************)
DerSequence == 48     \* 0x30
DerInteger == 2       \* 0x02
DerHighBit == 128     \* 0x80

\* dataToSign, had it left the ephemeral key out of what is signed
dataToSignDataOnly(parsedData) == parsedData.data
\* dataToSign, had it covered the recipients' entries too
dataToSignWithShareKeys(parsedData) ==
  parsedData.ephPubKey \o parsedData.data \o <<Cardinality(DOMAIN parsedData.shareKeys)>>

\* JSON.stringify({ephPubKey, data}) of the envelope's fields
dataToSign(parsedData) == parsedData.ephPubKey \o parsedData.data

\* CryptoJS.SHA256(data).toString(): ideal, injective
SHA256(data) == <<Len(data)>> \o data

RECURSIVE SumSeq(_)
SumSeq(s) == IF s = <<>> THEN 0 ELSE Head(s) + SumSeq(Tail(s))

\* keyPair.sign(hash): r is the x coordinate of the point of the
\* deterministic nonce, s binds the private key to every unit of the hash
EcdsaSign(priv, hash) ==
  [r |-> <<GTable[1 + ((priv + SumSeq(hash)) % (CurveN - 1))][1]>>,
   s |-> [i \in 1..Len(hash) |-> hash[i] * CurveN + priv]]

\* key.verify(hash, signature): ideal, the signature is the one the private
\* key of publicKey produces for hash
EcdsaVerify(publicKey, hash, r, s) ==
  \E d \in 1..(CurveN - 1) :
    PublicOf(d) = publicKey /\ EcdsaSign(d, hash) = [r |-> r, s |-> s]

\* signature.toDER(): SEQUENCE { INTEGER r, INTEGER s }, an integer whose
\* first byte has the high bit set being prefixed by a zero byte
DerInt(v) == IF v[1] >= DerHighBit THEN <<0>> \o v ELSE v
toDER(sig) ==
  LET rb == DerInt(sig.r)
      sb == DerInt(sig.s)
  IN <<DerSequence, 4 + Len(rb) + Len(sb), DerInteger, Len(rb)>> \o rb
       \o <<DerInteger, Len(sb)>> \o sb

\* new Signature(hex, 'hex'): _importDER, which refuses what is not the DER
\* of two integers ('Signature without r or s' is then thrown)
DerBad == [ok |-> FALSE, r |-> <<>>, s |-> <<>>]
DerStrip(v) == IF Len(v) >= 2 /\ v[1] = 0 THEN Tail(v) ELSE v
DerIntOk(v) == Len(v) >= 1 /\ (v[1] = 0 => (Len(v) >= 2 /\ v[2] >= DerHighBit))
importDER(b) ==
  IF Len(b) < 6 \/ b[1] # DerSequence \/ b[2] + 2 # Len(b) \/ b[3] # DerInteger
  THEN DerBad
  ELSE LET rlen == b[4]
       IN IF rlen < 1 \/ 6 + rlen > Len(b) \/ b[5 + rlen] # DerInteger
          THEN DerBad
          ELSE LET slen == b[6 + rlen]
                   r == SubSeq(b, 5, 4 + rlen)
                   s == SubSeq(b, 7 + rlen, Len(b))
               IN IF Len(b) # 6 + rlen + slen \/ ~DerIntOk(r) \/ ~DerIntOk(s)
                  THEN DerBad
                  ELSE [ok |-> TRUE, r |-> DerStrip(r), s |-> DerStrip(s)]

\* sign(privateKey, data): Base64 of the DER of the signature of the hash
sign(privateKey, data) ==
  Base64Stringify(toDER(EcdsaSign(privateKey, SHA256(data))))

\* verify(publicKey, data, signature): "true", "false", or "throws" when the
\* decoded signature is no DER (the library's assertion fails)
verify(publicKey, data, signature) ==
  LET sig == importDER(Base64Parse(signature))
  IN IF ~sig.ok THEN "throws"
     ELSE IF EcdsaVerify(publicKey, SHA256(data), sig.r, sig.s) THEN "true"
     ELSE "false"

(***************************************************************************)
(* The protocols: sealing.  ephemeral is the outcome of ec.genKeyPair() and *)
(* aesKey the outcome of CryptoJS.lib.WordArray.random(32).                 *)
(***************************************************************************)
AesKeys == {<<17, 4>>, <<200, 9>>}
PlainChars == {97, 233}      \* 'a' (one UTF-8 byte) and 'e acute' (two)

RECURSIVE SeqsUpTo(_, _)
SeqsUpTo(S, n) ==
  IF n = 0 THEN {<<>>}
  ELSE LET shorter == SeqsUpTo(S, n - 1)
       IN shorter \cup {Append(q, x) : q \in shorter, x \in S}

Plaintexts == SeqsUpTo(PlainChars, MaxLen)
RecipientLists == SeqsUpTo(PubKeys \cup InvalidKeys, MaxRecipients)

\* CryptoJS.MD5(str).toString(): ideal, injective
MD5(str) == <<Len(str)>> \o str
\* keyHashOf, had it hashed the x coordinate of the public key alone
keyHashOfXOnly(ephPubKey, publicKey) == MD5(ephPubKey \o <<publicKey[2]>>)
\* const keyHash = CryptoJS.MD5(ephPubKey + publicKey).toString()
keyHashOf(ephPubKey, publicKey) == MD5(ephPubKey \o publicKey)

\* encryptAndSign, had it encrypted with NoPadding
encryptAndSignNoPadding(recipientPublicKey, senderPrivateKey, data, ephemeral) ==
  LET key == sharedSecretKey(ephemeral, recipientPublicKey)
      encrypted == AesEncrypt(Utf8Parse(data), key, FALSE)
      ephPubKey == PublicOf(ephemeral)
      unsigned == [kind |-> "single", ephPubKey |-> ephPubKey, data |-> encrypted,
                   shareKeys |-> <<>>, signature |-> <<>>]
  IN [unsigned EXCEPT !.signature = sign(senderPrivateKey, dataToSign(unsigned))]

encryptAndSign(recipientPublicKey, senderPrivateKey, data, ephemeral) ==
  LET key == sharedSecretKey(ephemeral, recipientPublicKey)
      encrypted == AesEncrypt(Utf8Parse(data), key, TRUE)
      ephPubKey == PublicOf(ephemeral)
      unsigned == [kind |-> "single", ephPubKey |-> ephPubKey, data |-> encrypted,
                   shareKeys |-> <<>>, signature |-> <<>>]
  IN [unsigned EXCEPT !.signature = sign(senderPrivateKey, dataToSign(unsigned))]

\* shareKeyEntry, had it hashed the public key before the ephemeral key
shareKeyEntrySwapped(publicKey, ephemeral, aesKey) ==
  MD5(publicKey \o PublicOf(ephemeral))
    :> AesEncrypt(aesKey, sharedSecretKey(ephemeral, publicKey), FALSE)
\* shareKeyEntry, had it wrapped the key with Pkcs7 padding
shareKeyEntryPkcs7(publicKey, ephemeral, aesKey) ==
  keyHashOf(PublicOf(ephemeral), publicKey)
    :> AesEncrypt(aesKey, sharedSecretKey(ephemeral, publicKey), TRUE)

\* the body of recipientPublicKeys.forEach: one wrap of aesKey, stored under
\* the hash of the ephemeral and the recipient's public key; a later entry
\* of the same hash replaces the earlier one
shareKeyEntry(publicKey, ephemeral, aesKey) ==
  keyHashOf(PublicOf(ephemeral), publicKey)
    :> AesEncrypt(aesKey, sharedSecretKey(ephemeral, publicKey), FALSE)

\* shareKeysOf, had it wrapped the key for the first recipient only
shareKeysOfFirstOnly(recipientPublicKeys, ephemeral, aesKey) ==
  IF recipientPublicKeys = <<>> THEN <<>>
  ELSE shareKeyEntry(recipientPublicKeys[1], ephemeral, aesKey)

RECURSIVE shareKeysOf(_, _, _)
shareKeysOf(recipientPublicKeys, ephemeral, aesKey) ==
  IF recipientPublicKeys = <<>> THEN <<>>
  ELSE LET n == Len(recipientPublicKeys)
       IN shareKeyEntry(recipientPublicKeys[n], ephemeral, aesKey)
            @@ shareKeysOf(SubSeq(recipientPublicKeys, 1, n - 1), ephemeral, aesKey)

\* what a sealing call that threw has returned: nothing
NoEnvelope ==
  [kind |-> "none", ephPubKey |-> <<>>, data |-> <<>>, shareKeys |-> <<>>,
   signature |-> <<>>]

\* ec.keyFromPublic(publicKey, 'hex') throws for one of the keys
keyFromPublicThrows(recipientPublicKeys) ==
  \E i \in 1..Len(recipientPublicKeys) : ~ValidPublic(recipientPublicKeys[i])

\* encryptAndSignForMultipleRecipients, had the body of the forEach caught the
\* error of a key and gone on with the next one
encryptAndSignForMultipleRecipientsSkipInvalid(recipientPublicKeys, senderPrivateKey, data, ephemeral, aesKey) ==
  LET ephPubKey == PublicOf(ephemeral)
      encrypted == AesEncrypt(Utf8Parse(data), aesKey, TRUE)
      unsigned == [kind |-> "multi", ephPubKey |-> ephPubKey, data |-> encrypted,
                   shareKeys |-> shareKeysOf(SelectSeq(recipientPublicKeys, ValidPublic),
                                             ephemeral, aesKey),
                   signature |-> <<>>]
  IN [unsigned EXCEPT !.signature = sign(senderPrivateKey, dataToSign(unsigned))]

\* encryptAndSignForMultipleRecipients, had the iv of the encryption of the
\* data been taken from the ephemeral key instead of the content key
encryptAndSignForMultipleRecipientsIvFromEphemeral(recipientPublicKeys, senderPrivateKey, data, ephemeral, aesKey) ==
  LET ephPubKey == PublicOf(ephemeral)
      encrypted == Base64Stringify(CbcEncrypt(aesKey, ephemeral, Pkcs7Pad(Utf8Parse(data))))
      unsigned == [kind |-> "multi", ephPubKey |-> ephPubKey, data |-> encrypted,
                   shareKeys |-> shareKeysOf(recipientPublicKeys, ephemeral, aesKey),
                   signature |-> <<>>]
  IN [unsigned EXCEPT !.signature = sign(senderPrivateKey, dataToSign(unsigned))]

\* the error of ec.keyFromPublic inside the forEach leaves the function; the
\* statements after the loop (sign, JSON.stringify) are not reached
encryptAndSignForMultipleRecipients(recipientPublicKeys, senderPrivateKey, data, ephemeral, aesKey) ==
  IF keyFromPublicThrows(recipientPublicKeys) THEN NoEnvelope
  ELSE LET ephPubKey == PublicOf(ephemeral)
           encrypted == AesEncrypt(Utf8Parse(data), aesKey, TRUE)
           unsigned == [kind |-> "multi", ephPubKey |-> ephPubKey, data |-> encrypted,
                        shareKeys |-> shareKeysOf(recipientPublicKeys, ephemeral, aesKey),
                        signature |-> <<>>]
       IN [unsigned EXCEPT !.signature = sign(senderPrivateKey, dataToSign(unsigned))]

(***************************************************************************)
(* The aggregator (service/domainState.ts), the batch encryption            *)
(* (utils/encryptionHandler.ts), the upload (utils/cookieCloudApiClient.ts) *)
(* and the configuration they read.  Map.forEach visits the domains in      *)
(* insertion order; the order is not kept, a Map being a function of the    *)
(* domain here.  The tab ids of a domain are left out.                      *)
(***************************************************************************)
MaxTime == 2                    \* the last value of Date.now()
Domains == {"a.example", "b.example"}
HeaderKeys == {"authorization"}
HeaderValues == {"v1"}
NoHeaders == [k \in {} |-> "v1"]

\* getOrCreateDomainState(domain), at time t
getOrCreateDomainState(states, domain, t) ==
  IF domain \in DOMAIN states THEN states
  ELSE (domain :> [cookieUpdated |-> FALSE, headers |-> NoHeaders,
                   updatedHeaderKeys |-> {}, lastUpdate |-> t]) @@ states

\* handleCookieChange(changeInfo), cookie.domain = domain
handleCookieChange(states, domain, t) ==
  LET created == getOrCreateDomainState(states, domain, t)
  IN [created EXCEPT ![domain].cookieUpdated = TRUE]

\* handleRequestHeaders(details) for a request to domain with one header
handleRequestHeaders(states, domain, headerKey, value, t) ==
  LET created == getOrCreateDomainState(states, domain, t)
      domainState == created[domain]
      changed == headerKey \notin DOMAIN domainState.headers
                   \/ domainState.headers[headerKey] # value
  IN [created EXCEPT ![domain] =
        [domainState EXCEPT
           !.updatedHeaderKeys = IF changed THEN @ \cup {headerKey} ELSE @,
           !.headers = (headerKey :> value) @@ @,
           !.lastUpdate = t]]

\* extractDomainData(sinceLastExtract), at time t: the list returned and the
\* fields of the manager after the call
extractDomainData(states, lastExtract, sinceLastExtract, t) ==
  LET taken == IF sinceLastExtract
               THEN {d \in DOMAIN states : states[d].lastUpdate > lastExtract}
               ELSE DOMAIN states
  IN [result |->
        [d \in taken |->
           [domain |-> d,
            cookieUpdated |-> IF sinceLastExtract THEN states[d].cookieUpdated ELSE TRUE,
            headers |-> states[d].headers,
            updatedHeaderKeys |-> IF sinceLastExtract THEN states[d].updatedHeaderKeys
                                  ELSE DOMAIN states[d].headers,
            lastUpdate |-> states[d].lastUpdate]],
      domainStates |->
        [d \in DOMAIN states |->
           IF d \in taken
           THEN [states[d] EXCEPT !.cookieUpdated = FALSE, !.updatedHeaderKeys = {}]
           ELSE states[d]],
      lastExtractTime |-> t]

\* the storage as ConfigManager finds it: DEFAULT_CONFIG and no peer keys,
\* and what the options page may have saved
DefaultSyncInterval == 30
DefaultConfig ==
  [privateKey |-> 0, endpoint |-> "", lastSyncTime |-> 0,
   enableAutoSync |-> FALSE, syncInterval |-> DefaultSyncInterval,
   peers |-> [d \in Domains |-> <<>>], headers |-> {}]
Endpoint == "https://cloud.example"
\* time is counted in minutes: a saved syncInterval of one minute
SavedSyncInterval == 1
SavedConfigs ==
  {[privateKey |-> 2, endpoint |-> Endpoint, lastSyncTime |-> 0,
    enableAutoSync |-> TRUE, syncInterval |-> SavedSyncInterval,
    peers |-> ("a.example" :> <<PublicOf(1)>>) @@ ("b.example" :> <<>>),
    headers |-> {"authorization"}],
   [privateKey |-> 2, endpoint |-> Endpoint, lastSyncTime |-> 0,
    enableAutoSync |-> TRUE, syncInterval |-> SavedSyncInterval,
    peers |-> ("a.example" :> <<PublicOf(1), CHOOSE k \in PubKeys : k # PublicOf(1)>>)
                @@ ("b.example" :> <<PublicOf(1), OffCurveKey>>),
    headers |-> {}],
   [privateKey |-> 2, endpoint |-> "", lastSyncTime |-> 0,
    enableAutoSync |-> FALSE, syncInterval |-> SavedSyncInterval,
    peers |-> [d \in Domains |-> <<PublicOf(1)>>], headers |-> {}],
   [privateKey |-> 0, endpoint |-> Endpoint, lastSyncTime |-> 0,
    enableAutoSync |-> TRUE, syncInterval |-> SavedSyncInterval,
    peers |-> [d \in Domains |-> <<PublicOf(1)>>], headers |-> {}]}

\* saveBaseConfig(newConfig): the item of StorageKeys.BASE is replaced; the
\* peer keys and the domain configurations are other items of the storage
saveBaseConfig(stored, newConfig) ==
  [newConfig EXCEPT !.peers = stored.peers, !.headers = stored.headers]

\* prepareDomainDataForEncryption(domainData): null, or the data to encrypt;
\* cookies tells whether chrome.cookies.getAll was asked for the cookies
Null == [domain |-> "null"]
prepareDomainDataForEncryption(domainData, headersToInclude) ==
  LET hasReportableHeaders == domainData.updatedHeaderKeys \cap headersToInclude # {}
  IN IF ~domainData.cookieUpdated /\ ~hasReportableHeaders THEN Null
     ELSE [domain |-> domainData.domain,
           cookies |-> domainData.cookieUpdated,
           headers |-> [k \in (DOMAIN domainData.headers) \cap headersToInclude
                          |-> domainData.headers[k]]]

\* JSON.stringify(restData), as far as it tells two payloads apart: a
\* character for the cookies and one for the number of headers
DigitZero == 48
jsonData(encryptableData) ==
  <<DigitZero + (IF encryptableData.cookies THEN 1 ELSE 0),
    DigitZero + Cardinality(DOMAIN encryptableData.headers)>>

\* encryptDomainDataBatch, had it not tested peerPublicKeys.length
encryptDomainDataBatchNoLengthTest(domainDataList, cfg, ephemerals, aesKeys) ==
  IF cfg.privateKey = 0
  THEN [threw |-> TRUE, encryptedDataMap |-> <<>>, sealedFor |-> <<>>]
  ELSE LET prepared(d) == prepareDomainDataForEncryption(domainDataList[d], cfg.headers)
           reached == {d \in DOMAIN domainDataList : prepared(d) # Null}
           envelope(d) == encryptAndSignForMultipleRecipients(cfg.peers[d],
                            cfg.privateKey, jsonData(prepared(d)), ephemerals[d], aesKeys[d])
       IN [threw |-> FALSE,
           encryptedDataMap |->
             [d \in {x \in reached : envelope(x).kind # "none"} |-> envelope(d)],
           sealedFor |-> [d \in reached |-> cfg.peers[d]]]

\* encryptDomainDataBatch(domainDataList, preProcessCallback): whether it
\* threw, the map it returned (its keys, the hashes of calculateKeyIdentifier,
\* are one per domain: it is keyed by the domain here), and the recipient
\* list of every call of the multi-recipient seal it made
encryptDomainDataBatch(domainDataList, cfg, ephemerals, aesKeys) ==
  IF cfg.privateKey = 0
  THEN [threw |-> TRUE, encryptedDataMap |-> <<>>, sealedFor |-> <<>>]
  ELSE LET prepared(d) == prepareDomainDataForEncryption(domainDataList[d], cfg.headers)
           reached == {d \in DOMAIN domainDataList :
                         Len(cfg.peers[d]) # 0 /\ prepared(d) # Null}
           envelope(d) == encryptAndSignForMultipleRecipients(cfg.peers[d],
                            cfg.privateKey, jsonData(prepared(d)), ephemerals[d], aesKeys[d])
       IN [threw |-> FALSE,
           encryptedDataMap |->
             [d \in {x \in reached : envelope(x).kind # "none"} |-> envelope(d)],
           sealedFor |-> [d \in reached |-> cfg.peers[d]]]

\* CookieCloudApiClient.setData(dataMap): fetchOutcome is what fetch and
\* response.ok come to
FetchOutcomes == {"ok", "HTTP error", "network error"}
\* setData, had it not looked at response.ok or caught the error of fetch
setDataIgnoresStatus(cfg, fetchOutcome) ==
  IF cfg.endpoint = "" THEN [success |-> FALSE, message |-> "no endpoint"]
  ELSE [success |-> TRUE, message |-> fetchOutcome]
setData(cfg, fetchOutcome) ==
  IF cfg.endpoint = "" THEN [success |-> FALSE, message |-> "no endpoint"]
  ELSE IF fetchOutcome = "ok" THEN [success |-> TRUE, message |-> "sent"]
  ELSE [success |-> FALSE, message |-> fetchOutcome]

\* who called syncDomainData: a FORCE_SYNC or NORMAL_SYNC message (or the
\* start of the worker), and the callback of the auto-sync timer
Callers == {"message", "timer"}
\* a call of syncDomainData that is not in progress, and the locals of one
\* that is; started is the time of the call
NoSync ==
  [pc |-> "idle", sinceLastExtract |-> TRUE, domainDataList |-> <<>>,
   encryptedDataMap |-> <<>>, timestamp |-> 0, syncReports |-> {},
   result |-> [success |-> FALSE, message |-> "none"],
   currentConfig |-> DefaultConfig, started |-> 0]
\* handleConfirmKeyChange of the options page when it is not running, and
\* the private keys it may write
NoKeyChange == [pc |-> "idle", currentConfig |-> DefaultConfig, newPrivateKey |-> 0]
NewPrivateKeys == {1}
\* chrome.runtime.id, and the sender.id of a message: this extension,
\* another extension, or none
RuntimeId == "cookie-cloud"
SenderIds == {RuntimeId, "other-extension", ""}
\* message.type || '': the types handleMessage knows, one it does not, none
SyncTypes == {"FORCE_SYNC", "NORMAL_SYNC"}
ReportTypes == {"QUERY_REPORTS", "GET_REPORT_COUNT", "CLEAR_REPORTS", "GET_ALL_PEER_KEYS"}
TabTypes == {"GET_TAB_DOMAINS", "GET_DOMAIN_DATA"}
DataTypes == {"CLEAR_ALL_DATA"}
MessageTypes == SyncTypes \cup ReportTypes \cup TabTypes \cup DataTypes \cup {"PING", ""}
\* handleMessage, had it let a sender without id pass
rejectsOtherIdOnly(senderId) == senderId # "" /\ senderId # RuntimeId
\* !sender.id || sender.id !== chrome.runtime.id
rejects(senderId) == senderId = "" \/ senderId # RuntimeId
\* the handler handleMessage hands the message to
route(type) ==
  IF type \in SyncTypes THEN "handleSyncActions"
  ELSE IF type \in ReportTypes THEN "handleReportActions"
  ELSE IF type \in TabTypes THEN "handleTabActions"
  ELSE IF type \in DataTypes THEN "handleDataActions"
  ELSE "none"
\* the responses: success is "true", "false", or "undefined" when the
\* response has no such field
Rejected == [success |-> "false", message |-> "illegal sender"]
UnknownType == [success |-> "undefined", message |-> "unknown type"]
MissingArgument == [success |-> "false", message |-> "missing argument"]
Succeeded == [success |-> "true", message |-> ""]
Failed == [success |-> "false", message |-> "failed"]
\* no message yet; handler is the handler the message was handed to
NoMessage == [sender |-> "", type |-> "", handler |-> "none", pc |-> "idle", responses |-> <<>>]
\* ReportHistory.addReport(report): the request succeeds or fails
ReportOutcomes == {"ok", "error"}
NoResult == [success |-> FALSE, message |-> "none"]
NoReply == [success |-> FALSE, domain |-> "", message |-> "none"]

(***************************************************************************)
(* State: one envelope on its way from the sealing call to an opening call. *)
(***************************************************************************)
VARIABLES
  env,        \* the envelope (the parsed JSON), or NoEnvelope
  sealed,     \* the arguments and the randomness of the sealing call
  signedLog,  \* <<private key, ephPubKey, data>> of every call of sign
  tampered,   \* what was changed in the envelope on its way, or "none"
  call,       \* the opening call: its arguments, position and locals
  ops,        \* the primitive operations the opening call has executed
  module,     \* the module-level bindings of crypto.ts
  drawn,      \* the private keys ec.genKeyPair() has returned so far
  history,    \* the calls of the exported functions that have returned or thrown
  now,              \* Date.now()
  domainStates,     \* DomainStateManager.domainStates
  lastExtractTime,  \* DomainStateManager.lastExtractTime
  config,           \* what ConfigManager reads from chrome.storage.local
  sync,             \* the calls of syncDomainData in progress: position and locals
  syncResult,       \* what the last call of syncDomainData returned
  reply,            \* the last response to a GET_DOMAIN_DATA message
  sealLog,          \* the recipient lists the batch of this call sealed for
  reports,          \* the reports the last call of syncDomainData stored
  keyChange,        \* handleConfirmKeyChange of the options page: position and locals
  msg               \* the message handleMessage was called with last, and its responses

envelopeVars == <<env, sealed, signedLog, tampered, call, ops>>
libraryVars == <<module, drawn, history>>
aggregatorVars == <<now, domainStates, lastExtractTime, reply>>
syncVars == <<config, sync, syncResult, sealLog, reports>>
pageVars == <<keyChange>>
messageVars == <<msg>>
vars == <<envelopeVars, libraryVars, aggregatorVars, syncVars, pageVars, messageVars>>

NotSealed ==
  [sender |-> 0, recipients |-> <<>>, plain |-> <<>>, ephemeral |-> 0, aesKey |-> <<>>]
NoCall ==
  [pc |-> "idle", recipientPrivateKey |-> 0, senderPublicKey |-> <<>>,
   keyHash |-> <<>>, sharedSecretKey |-> <<>>, decryptedKey |-> <<>>,
   result |-> <<>>, error |-> "none"]

\* const ec = new elliptic.ec('secp256k1'): the one module-level binding
ModuleInit == [ec |-> "secp256k1"]

Init ==
  /\ env = NoEnvelope
  /\ sealed = NotSealed
  /\ signedLog = {}
  /\ tampered = "none"
  /\ call = NoCall
  /\ ops = <<>>
  /\ module = ModuleInit
  /\ drawn = {}
  /\ history = <<>>
  /\ now = 1
  /\ domainStates = <<>>
  /\ lastExtractTime = 0
  /\ config = DefaultConfig
  /\ sync = [caller \in Callers |-> NoSync]
  /\ syncResult = NoResult
  /\ reply = NoReply
  /\ sealLog = {}
  /\ reports = {}
  /\ keyChange = NoKeyChange
  /\ msg = NoMessage

Seal ==
  /\ sealed = NotSealed
  /\ \E senderPrivateKey \in SenderKeys, recipientPublicKey \in PubKeys,
        data \in Plaintexts, ephemeral \in EphKeys :
       /\ env' = encryptAndSign(recipientPublicKey, senderPrivateKey, data, ephemeral)
       /\ sealed' = [sender |-> senderPrivateKey, recipients |-> <<recipientPublicKey>>,
                     plain |-> data, ephemeral |-> ephemeral, aesKey |-> <<>>]
       /\ signedLog' = signedLog \cup {<<senderPrivateKey, env'.ephPubKey, env'.data>>}
  /\ UNCHANGED <<tampered, call, ops, libraryVars, aggregatorVars, syncVars, pageVars, messageVars>>

SealMany ==
  /\ sealed = NotSealed
  /\ \E senderPrivateKey \in SenderKeys, recipientPublicKeys \in RecipientLists,
        data \in Plaintexts, ephemeral \in EphKeys, aesKey \in AesKeys :
       /\ env' = encryptAndSignForMultipleRecipients(recipientPublicKeys,
                   senderPrivateKey, data, ephemeral, aesKey)
       /\ sealed' = [sender |-> senderPrivateKey, recipients |-> recipientPublicKeys,
                     plain |-> data, ephemeral |-> ephemeral, aesKey |-> aesKey]
       /\ signedLog' = IF env'.kind = "none" THEN signedLog
                       ELSE signedLog \cup {<<senderPrivateKey, env'.ephPubKey, env'.data>>}
  /\ UNCHANGED <<tampered, call, ops, libraryVars, aggregatorVars, syncVars, pageVars, messageVars>>

(***************************************************************************)
(* The relay: one change of the envelope between sealing and opening.       *)
(***************************************************************************)
InTransit == env.kind # "none" /\ tampered = "none" /\ call.pc = "idle"

\* the characters a character of a Base64 text is changed to: the next
\* character of the alphabet, one outside the alphabet, the padding character
OtherChars(c) == {c + 1, BangChar, PadChar}

TamperData ==
  /\ InTransit
  /\ \E i \in 1..Len(env.data) : \E c \in OtherChars(env.data[i]) :
       env' = [env EXCEPT !.data[i] = c]
  /\ tampered' = "data"
  /\ UNCHANGED <<sealed, signedLog, call, ops, libraryVars, aggregatorVars, syncVars, pageVars, messageVars>>

TamperSignature ==
  /\ InTransit
  /\ \E i \in 1..Len(env.signature) : \E c \in OtherChars(env.signature[i]) :
       env' = [env EXCEPT !.signature[i] = c]
  /\ tampered' = "signature"
  /\ UNCHANGED <<sealed, signedLog, call, ops, libraryVars, aggregatorVars, syncVars, pageVars, messageVars>>

ReplaceEphPubKey ==
  /\ InTransit
  /\ \E d \in PrivKeys \cup EphKeys :
       /\ PublicOf(d) # env.ephPubKey
       /\ env' = [env EXCEPT !.ephPubKey = PublicOf(d)]
  /\ tampered' = "ephPubKey"
  /\ UNCHANGED <<sealed, signedLog, call, ops, libraryVars, aggregatorVars, syncVars, pageVars, messageVars>>

\* the relay signs the envelope's {ephPubKey, data} with a key of its own
ReSign ==
  /\ InTransit
  /\ \E d \in PrivKeys \ {sealed.sender} :
       /\ env' = [env EXCEPT !.signature = sign(d, dataToSign(env))]
       /\ signedLog' = signedLog \cup {<<d, env.ephPubKey, env.data>>}
  /\ tampered' = "resigned"
  /\ UNCHANGED <<sealed, call, ops, libraryVars, aggregatorVars, syncVars, pageVars, messageVars>>

DropShareKey ==
  /\ InTransit
  /\ env.kind = "multi"
  /\ \E h \in DOMAIN env.shareKeys :
       env' = [env EXCEPT !.shareKeys = [k \in (DOMAIN env.shareKeys) \ {h} |-> env.shareKeys[k]]]
  /\ tampered' = "dropped"
  /\ UNCHANGED <<sealed, signedLog, call, ops, libraryVars, aggregatorVars, syncVars, pageVars, messageVars>>

\* an entry for a key that has none, wrapping whatever the relay likes
AddShareKey ==
  /\ InTransit
  /\ env.kind = "multi"
  /\ \E publicKey \in PubKeys, key \in AesKeys :
       /\ keyHashOf(env.ephPubKey, publicKey) \notin DOMAIN env.shareKeys
       /\ env' = [env EXCEPT !.shareKeys =
                    (keyHashOf(env.ephPubKey, publicKey) :> Base64Stringify(key)) @@ @]
  /\ tampered' = "added"
  /\ UNCHANGED <<sealed, signedLog, call, ops, libraryVars, aggregatorVars, syncVars, pageVars, messageVars>>

\* the entry of one recipient is given another content: the signature, which
\* does not cover shareKeys, stays valid
ReplaceShareKey ==
  /\ InTransit
  /\ env.kind = "multi"
  /\ \E h \in DOMAIN env.shareKeys, key \in AesKeys :
       /\ Base64Stringify(key) # env.shareKeys[h]
       /\ env' = [env EXCEPT !.shareKeys[h] = Base64Stringify(key)]
  /\ tampered' = "replaced"
  /\ UNCHANGED <<sealed, signedLog, call, ops, libraryVars, aggregatorVars, syncVars, pageVars, messageVars>>

(***************************************************************************)
(* The protocols: opening, verifyAndDecrypt for a single-recipient envelope *)
(* and verifyAndDecryptForMultipleRecipients for a multi-recipient one,     *)
(* statement by statement.                                                  *)
(***************************************************************************)
SignatureInvalid == "SignatureInvalid"              \* the Error of lines 127 and 306
NotAnIntendedRecipient == "NotAnIntendedRecipient"  \* the Error of line 314
LibraryError == "LibraryError"                      \* an Error thrown by elliptic or crypto-js

Fail(error) == call' = [call EXCEPT !.pc = "failed", !.error = error]

\* afterVerify, had a failed check been reported without stopping the call
afterVerifyWarnOnly(isValid, kind) ==
  IF isValid = "throws" THEN [pc |-> "failed", error |-> LibraryError]
  ELSE [pc |-> IF kind = "multi" THEN "lookup" ELSE "derive", error |-> "none"]

\* if (!isValid) throw new Error(...): where the call goes after verify, which
\* itself throws when the signature is no DER
afterVerify(isValid, kind) ==
  IF isValid = "throws" THEN [pc |-> "failed", error |-> LibraryError]
  ELSE IF isValid = "false" THEN [pc |-> "failed", error |-> SignatureInvalid]
  ELSE [pc |-> IF kind = "multi" THEN "lookup" ELSE "derive", error |-> "none"]

\* the call, JSON.parse and the destructuring
OpenCall ==
  /\ env.kind # "none"
  /\ call.pc = "idle"
  /\ \E recipientPrivateKey \in PrivKeys, senderPublicKey \in PubKeys :
       call' = [call EXCEPT !.pc = "verify",
                            !.recipientPrivateKey = recipientPrivateKey,
                            !.senderPublicKey = senderPublicKey]
  /\ UNCHANGED <<env, sealed, signedLog, tampered, ops, libraryVars, aggregatorVars, syncVars, pageVars, messageVars>>

\* const isValid = verify(...); if (!isValid) throw
VerifyStep ==
  /\ call.pc = "verify"
  /\ LET isValid == verify(call.senderPublicKey, dataToSign(env), env.signature)
         after == afterVerify(isValid, env.kind)
     IN call' = [call EXCEPT !.pc = after.pc, !.error = after.error]
  /\ ops' = Append(ops, "verify")
  /\ UNCHANGED <<env, sealed, signedLog, tampered, libraryVars, aggregatorVars, syncVars, pageVars, messageVars>>

\* const keyHash = MD5(ephPubKey + recipientPublicKey);
\* if (!shareKeys[keyHash]) throw
LookupStep ==
  /\ call.pc = "lookup"
  /\ LET recipientPublicKey == getKeyPairFromPrivateKey(call.recipientPrivateKey).publicKey
         keyHash == keyHashOf(env.ephPubKey, recipientPublicKey)
     IN IF keyHash \notin DOMAIN env.shareKeys \/ env.shareKeys[keyHash] = <<>>
        THEN Fail(NotAnIntendedRecipient)
        ELSE call' = [call EXCEPT !.pc = "derive", !.keyHash = keyHash]
  /\ ops' = Append(ops, "lookup")
  /\ UNCHANGED <<env, sealed, signedLog, tampered, libraryVars, aggregatorVars, syncVars, pageVars, messageVars>>

\* ec.keyFromPrivate, ec.keyFromPublic(ephPubKey), derive, Hex.parse
DeriveStep ==
  /\ call.pc = "derive"
  /\ IF ~ValidPublic(env.ephPubKey) THEN Fail(LibraryError)
     ELSE call' = [call EXCEPT
                     !.pc = IF env.kind = "multi" THEN "unwrap" ELSE "decrypt",
                     !.sharedSecretKey = sharedSecretKey(call.recipientPrivateKey, env.ephPubKey)]
  /\ ops' = Append(ops, "derive")
  /\ UNCHANGED <<env, sealed, signedLog, tampered, libraryVars, aggregatorVars, syncVars, pageVars, messageVars>>

\* const decryptedKey = CryptoJS.AES.decrypt(shareKeys[keyHash], sharedSecretKey, NoPadding)
UnwrapStep ==
  /\ call.pc = "unwrap"
  /\ call' = [call EXCEPT
                !.pc = "decrypt",
                !.decryptedKey = AesDecrypt(env.shareKeys[call.keyHash], call.sharedSecretKey, FALSE)]
  /\ ops' = Append(ops, "unwrap")
  /\ UNCHANGED <<env, sealed, signedLog, tampered, libraryVars, aggregatorVars, syncVars, pageVars, messageVars>>

\* const decrypted = CryptoJS.AES.decrypt(data, key, Pkcs7);
\* return decrypted.toString(CryptoJS.enc.Utf8)
DecryptStep ==
  /\ call.pc = "decrypt"
  /\ LET key == IF env.kind = "multi" THEN call.decryptedKey ELSE call.sharedSecretKey
         str == Utf8Stringify(AesDecrypt(env.data, key, TRUE))
     IN IF str = Malformed THEN Fail(LibraryError)
        ELSE call' = [call EXCEPT !.pc = "done", !.result = str]
  /\ ops' = Append(ops, "decrypt")
  /\ UNCHANGED <<env, sealed, signedLog, tampered, libraryVars, aggregatorVars, syncVars, pageVars, messageVars>>

Next ==
  \/ Seal
  \/ SealMany
  \/ TamperData
  \/ TamperSignature
  \/ ReplaceEphPubKey
  \/ ReSign
  \/ DropShareKey
  \/ AddShareKey
  \/ ReplaceShareKey
  \/ OpenCall
  \/ VerifyStep
  \/ LookupStep
  \/ DeriveStep
  \/ UnwrapStep
  \/ DecryptStep

Spec == Init /\ [][Next]_vars

(***************************************************************************)
(* The library in use: calls of the four exported functions, one after the *)
(* other (they are synchronous: a call runs to its return or its throw).   *)
(* A call is given the module-level bindings and leaves them as the        *)
(* function body leaves them; ec.genKeyPair() never returns the same key   *)
(* twice; CryptoJS.lib.WordArray.random may, so that two encryptions under *)
(* one key can be compared.                                                *)
(***************************************************************************)
CallEphKeys == {5, 7, CurveN - 5}     \* 5 and -5: two ephemeral keys, one shared x
CallPrivKeys == {1, 2}
CallRecipientLists == {<<PublicOf(1)>>, <<PublicOf(1), PublicOf(2)>>}
CallPlaintexts == {<<97>>, <<233>>}

Returned(value) == [ok |-> TRUE, value |-> value, error |-> "none"]
Threw(error) == [ok |-> FALSE, value |-> <<>>, error |-> error]
NotOpened == [ok |-> FALSE, value |-> <<>>, error |-> "none"]

\* verifyAndDecrypt, from JSON.parse to the return or the throw
verifyAndDecrypt(recipientPrivateKey, senderPublicKey, parsedData) ==
  LET isValid == verify(senderPublicKey, dataToSign(parsedData), parsedData.signature)
  IN IF isValid = "throws" THEN Threw(LibraryError)
     ELSE IF isValid = "false" THEN Threw(SignatureInvalid)
     ELSE IF ~ValidPublic(parsedData.ephPubKey) THEN Threw(LibraryError)
     ELSE LET key == sharedSecretKey(recipientPrivateKey, parsedData.ephPubKey)
              str == Utf8Stringify(AesDecrypt(parsedData.data, key, TRUE))
          IN IF str = Malformed THEN Threw(LibraryError) ELSE Returned(str)

\* verifyAndDecryptForMultipleRecipients, from JSON.parse to the return or
\* the throw
verifyAndDecryptForMultipleRecipients(recipientPrivateKey, senderPublicKey, parsedData) ==
  LET isValid == verify(senderPublicKey, dataToSign(parsedData), parsedData.signature)
      recipientPublicKey == getKeyPairFromPrivateKey(recipientPrivateKey).publicKey
      keyHash == keyHashOf(parsedData.ephPubKey, recipientPublicKey)
      shareKeys == parsedData.shareKeys
  IN IF isValid = "throws" THEN Threw(LibraryError)
     ELSE IF isValid = "false" THEN Threw(SignatureInvalid)
     ELSE IF keyHash \notin DOMAIN shareKeys \/ shareKeys[keyHash] = <<>>
          THEN Threw(NotAnIntendedRecipient)
     ELSE IF ~ValidPublic(parsedData.ephPubKey) THEN Threw(LibraryError)
     ELSE LET key == sharedSecretKey(recipientPrivateKey, parsedData.ephPubKey)
              decryptedKey == AesDecrypt(shareKeys[keyHash], key, FALSE)
              str == Utf8Stringify(AesDecrypt(parsedData.data, decryptedKey, TRUE))
          IN IF str = Malformed THEN Threw(LibraryError) ELSE Returned(str)

\* a call of encryptAndSign: the function body assigns to locals only, the
\* module-level bindings are after the call what they were before it
sealCall(mod, recipientPublicKey, senderPrivateKey, data, ephemeral) ==
  [module |-> mod,
   returned |-> encryptAndSign(recipientPublicKey, senderPrivateKey, data, ephemeral)]

\* sealManyCall, had the ephemeral key pair been a module-level binding
\* generated by the first call
sealManyCallKeepsEphemeral(mod, recipientPublicKeys, senderPrivateKey, data, ephemeral, aesKey) ==
  LET kept == IF "ephemeral" \in DOMAIN mod THEN mod.ephemeral ELSE ephemeral
  IN [module |-> [ec |-> mod.ec, ephemeral |-> kept],
      returned |-> encryptAndSignForMultipleRecipients(recipientPublicKeys,
                     senderPrivateKey, data, kept, aesKey)]

\* a call of encryptAndSignForMultipleRecipients
sealManyCall(mod, recipientPublicKeys, senderPrivateKey, data, ephemeral, aesKey) ==
  [module |-> mod,
   returned |-> encryptAndSignForMultipleRecipients(recipientPublicKeys,
                  senderPrivateKey, data, ephemeral, aesKey)]

\* a call of verifyAndDecrypt
openCall(mod, recipientPrivateKey, senderPublicKey, parsedData) ==
  [module |-> mod,
   returned |-> verifyAndDecrypt(recipientPrivateKey, senderPublicKey, parsedData)]

\* openManyCall, had it kept the outcome of the first call in a module-level
\* binding and answered the later calls from it
openManyCallAnswersFromLast(mod, recipientPrivateKey, senderPublicKey, parsedData) ==
  LET outcome == IF "last" \in DOMAIN mod THEN mod.last
                 ELSE verifyAndDecryptForMultipleRecipients(recipientPrivateKey,
                        senderPublicKey, parsedData)
  IN [module |-> [ec |-> mod.ec, last |-> outcome], returned |-> outcome]

\* a call of verifyAndDecryptForMultipleRecipients
openManyCall(mod, recipientPrivateKey, senderPublicKey, parsedData) ==
  [module |-> mod,
   returned |-> verifyAndDecryptForMultipleRecipients(recipientPrivateKey,
                  senderPublicKey, parsedData)]

CallSeal ==
  /\ Len(history) < MaxCalls
  /\ \E recipientPublicKey \in {PublicOf(d) : d \in CallPrivKeys},
        senderPrivateKey \in SenderKeys, data \in CallPlaintexts,
        ephemeral \in CallEphKeys \ drawn :
       LET out == sealCall(module, recipientPublicKey, senderPrivateKey, data, ephemeral)
       IN /\ module' = out.module
          /\ drawn' = drawn \cup {ephemeral}
          /\ history' = Append(history,
               [op |-> "seal", recipients |-> <<recipientPublicKey>>,
                senderPrivateKey |-> senderPrivateKey, data |-> data,
                ephemeral |-> ephemeral, aesKey |-> <<>>, recipientPrivateKey |-> 0,
                senderPublicKey |-> <<>>, envelope |-> out.returned,
                outcome |-> NotOpened])
  /\ UNCHANGED <<envelopeVars, aggregatorVars, syncVars, pageVars, messageVars>>

CallSealMany ==
  /\ Len(history) < MaxCalls
  /\ \E recipientPublicKeys \in CallRecipientLists, senderPrivateKey \in SenderKeys,
        data \in CallPlaintexts, ephemeral \in CallEphKeys \ drawn, aesKey \in AesKeys :
       LET out == sealManyCall(module, recipientPublicKeys, senderPrivateKey, data,
                               ephemeral, aesKey)
       IN /\ module' = out.module
          /\ drawn' = drawn \cup {ephemeral}
          /\ history' = Append(history,
               [op |-> "sealMany", recipients |-> recipientPublicKeys,
                senderPrivateKey |-> senderPrivateKey, data |-> data,
                ephemeral |-> ephemeral, aesKey |-> aesKey, recipientPrivateKey |-> 0,
                senderPublicKey |-> <<>>, envelope |-> out.returned,
                outcome |-> NotOpened])
  /\ UNCHANGED <<envelopeVars, aggregatorVars, syncVars, pageVars, messageVars>>

\* the envelope of an earlier call of encryptAndSign is opened
CallOpen ==
  /\ Len(history) < MaxCalls
  /\ \E i \in 1..Len(history), recipientPrivateKey \in CallPrivKeys,
        sender \in SenderKeys :
       /\ history[i].op = "seal"
       /\ LET out == openCall(module, recipientPrivateKey, PublicOf(sender),
                              history[i].envelope)
          IN /\ module' = out.module
             /\ history' = Append(history,
                  [op |-> "open", recipients |-> <<>>, senderPrivateKey |-> 0,
                   data |-> <<>>, ephemeral |-> 0, aesKey |-> <<>>,
                   recipientPrivateKey |-> recipientPrivateKey,
                   senderPublicKey |-> PublicOf(sender),
                   envelope |-> history[i].envelope, outcome |-> out.returned])
  /\ UNCHANGED <<envelopeVars, drawn, aggregatorVars, syncVars, pageVars, messageVars>>

\* the envelope of an earlier call of encryptAndSignForMultipleRecipients is
\* opened
CallOpenMany ==
  /\ Len(history) < MaxCalls
  /\ \E i \in 1..Len(history), recipientPrivateKey \in CallPrivKeys,
        sender \in SenderKeys :
       /\ history[i].op = "sealMany"
       /\ LET out == openManyCall(module, recipientPrivateKey, PublicOf(sender),
                                  history[i].envelope)
          IN /\ module' = out.module
             /\ history' = Append(history,
                  [op |-> "openMany", recipients |-> <<>>, senderPrivateKey |-> 0,
                   data |-> <<>>, ephemeral |-> 0, aesKey |-> <<>>,
                   recipientPrivateKey |-> recipientPrivateKey,
                   senderPublicKey |-> PublicOf(sender),
                   envelope |-> history[i].envelope, outcome |-> out.returned])
  /\ UNCHANGED <<envelopeVars, drawn, aggregatorVars, syncVars, pageVars, messageVars>>

NextCalls ==
  \/ CallSeal
  \/ CallSealMany
  \/ CallOpen
  \/ CallOpenMany

SpecCalls == Init /\ [][NextCalls]_vars

(***************************************************************************)
(* The service worker: the listeners feed the aggregator, messages query   *)
(* it, and syncDomainData extracts, encrypts and uploads, with the other   *)
(* handlers running at its awaits.  One call of syncDomainData is in       *)
(* progress at a time.  SpecAggregator is the extension nobody has         *)
(* configured, whose syncs end in encryptDomainDataBatch; SpecSync is the  *)
(* extension whose options page saves a configuration, once.               *)
(***************************************************************************)
SyncAesKeys == {<<17, 4>>}
\* one ec.genKeyPair() for every call of the seal: no key twice
EphemeralDraws == {f \in [Domains -> EphKeys] : \A a \in Domains, b \in Domains : f[a] = f[b] => a = b}

Tick ==
  /\ now < MaxTime
  /\ now' = now + 1
  /\ UNCHANGED <<envelopeVars, libraryVars, pageVars, messageVars, syncVars>>
  /\ UNCHANGED <<domainStates, lastExtractTime, reply>>

\* the options page writes the key, the endpoint and the peer keys
SaveConfig ==
  /\ config = [DefaultConfig EXCEPT !.lastSyncTime = config.lastSyncTime]
  /\ \E saved \in SavedConfigs :
       config' = [saved EXCEPT !.lastSyncTime = config.lastSyncTime]
  /\ UNCHANGED <<envelopeVars, libraryVars, pageVars, messageVars, aggregatorVars>>
  /\ UNCHANGED <<sync, syncResult, sealLog, reports>>

\* chrome.cookies.onChanged
HandleCookieChange ==
  /\ \E domain \in Domains :
       domainStates' = handleCookieChange(domainStates, domain, now)
  /\ UNCHANGED <<envelopeVars, libraryVars, pageVars, messageVars, syncVars>>
  /\ UNCHANGED <<now, lastExtractTime, reply>>

\* chrome.webRequest.onBeforeSendHeaders
HandleRequestHeaders ==
  /\ \E domain \in Domains, headerKey \in HeaderKeys, value \in HeaderValues :
       domainStates' = handleRequestHeaders(domainStates, domain, headerKey, value, now)
  /\ UNCHANGED <<envelopeVars, libraryVars, pageVars, messageVars, syncVars>>
  /\ UNCHANGED <<now, lastExtractTime, reply>>

\* handleTabActions for a GET_DOMAIN_DATA message, with or without a domain
HandleGetDomainData ==
  /\ \E domain \in Domains \cup {""} :
       IF domain = ""
       THEN /\ reply' = [NoReply EXCEPT !.message = "domain required"]
            /\ UNCHANGED <<domainStates, lastExtractTime>>
       ELSE LET out == extractDomainData(domainStates, lastExtractTime, FALSE, now)
            IN /\ domainStates' = out.domainStates
               /\ lastExtractTime' = out.lastExtractTime
               /\ reply' = [success |-> TRUE, domain |-> domain, message |-> ""]
  /\ UNCHANGED <<envelopeVars, libraryVars, pageVars, messageVars, syncVars, now>>

\* syncDomainData(sinceLastExtract) up to its first await: the extraction,
\* and the return when nothing was extracted
startSync(caller, sinceLastExtract) ==
  LET out == extractDomainData(domainStates, lastExtractTime, sinceLastExtract, now)
  IN /\ domainStates' = out.domainStates
     /\ lastExtractTime' = out.lastExtractTime
     /\ IF DOMAIN out.result = {}
        THEN /\ sync' = [sync EXCEPT ![caller] = NoSync]
             /\ syncResult' = [success |-> TRUE, message |-> "nothing to sync"]
             /\ reports' = {}
        ELSE /\ sync' = [sync EXCEPT ![caller] =
                          [NoSync EXCEPT !.pc = "encrypt",
                                         !.sinceLastExtract = sinceLastExtract,
                                         !.domainDataList = out.result,
                                         !.started = now]]
             /\ UNCHANGED <<syncResult, reports>>
     /\ sealLog' = {}

\* a FORCE_SYNC or NORMAL_SYNC message, or the sync at the start of the worker
SyncStart ==
  /\ sync["message"].pc = "idle"
  /\ \E sinceLastExtract \in BOOLEAN : startSync("message", sinceLastExtract)
  /\ UNCHANGED <<envelopeVars, libraryVars, pageVars, messageVars, now, reply, config>>

\* the callback of the auto-sync setInterval, when it calls syncDomainData
AutoSync ==
  /\ sync["timer"].pc = "idle"
  /\ config.enableAutoSync
  /\ now - config.lastSyncTime >= config.syncInterval
  /\ startSync("timer", TRUE)
  /\ UNCHANGED <<envelopeVars, libraryVars, pageVars, messageVars, now, reply, config>>

\* for (const report of syncReports) await addReport(report), with success
\* and errorMessage as the branch set them: what is stored, and whether
\* addReport threw
addReports(syncReports, result, reportOutcome) ==
  IF reportOutcome = "ok"
  THEN [threw |-> FALSE,
        reports |-> {[domain |-> d, success |-> result.success,
                      errorMessage |-> IF result.success THEN "" ELSE result.message]
                       : d \in syncReports}]
  ELSE [threw |-> TRUE, reports |-> {}]

\* await encryptDomainDataBatch(...), the return when it threw, and the call
\* of updateBaseConfig when its map is empty
SyncEncrypt ==
  /\ UNCHANGED <<envelopeVars, libraryVars, pageVars, messageVars, aggregatorVars, config>>
  /\ \E caller \in Callers :
       /\ sync[caller].pc = "encrypt"
       /\ \E ephemerals \in EphemeralDraws, aesKeys \in [Domains -> SyncAesKeys] :
            \E out \in {encryptDomainDataBatch(sync[caller].domainDataList, config, ephemerals, aesKeys)} :
               IF out.threw
               THEN /\ sync' = [sync EXCEPT ![caller] = NoSync]
                    /\ syncResult' = [success |-> FALSE, message |-> "threw"]
                    /\ reports' = {}
                    /\ UNCHANGED sealLog
               ELSE /\ sealLog' = {out.sealedFor[d] : d \in DOMAIN out.sealedFor}
                    /\ sync' = [sync EXCEPT ![caller] =
                                  [@ EXCEPT !.pc = IF DOMAIN out.encryptedDataMap = {}
                                                   THEN "record" ELSE "upload",
                                            !.encryptedDataMap = out.encryptedDataMap,
                                            !.syncReports = DOMAIN out.sealedFor,
                                            !.timestamp = now,
                                            !.result = [success |-> TRUE, message |-> "nothing to send"],
                                            !.currentConfig = IF DOMAIN out.encryptedDataMap = {}
                                                              THEN config ELSE @]]
                    /\ UNCHANGED <<syncResult, reports>>

\* await cookieCloudApiClient.setData(apiDataMap): after a failure the
\* reports are stored and the call returns, after a success updateBaseConfig
\* is called and reads the configuration
SyncUpload ==
  /\ \E caller \in Callers :
       /\ sync[caller].pc = "upload"
       /\ \E fetchOutcome \in FetchOutcomes, reportOutcome \in ReportOutcomes :
            LET result == setData(config, fetchOutcome)
                added == addReports(sync[caller].syncReports, result, reportOutcome)
            IN IF result.success
               THEN /\ sync' = [sync EXCEPT ![caller] =
                                  [@ EXCEPT !.pc = "record", !.result = result,
                                            !.currentConfig = config]]
                    /\ UNCHANGED <<syncResult, reports>>
               ELSE /\ sync' = [sync EXCEPT ![caller] = NoSync]
                    /\ reports' = added.reports
                    /\ syncResult' = IF added.threw
                                     THEN [success |-> FALSE, message |-> "addReport"]
                                     ELSE result
  /\ UNCHANGED <<envelopeVars, libraryVars, pageVars, messageVars, aggregatorVars, config, sealLog>>

\* updateBaseConfig writes what it read with the new lastSyncTime; after an
\* upload the reports are stored; the call returns
SyncRecord ==
  /\ \E caller \in Callers :
       /\ sync[caller].pc = "record"
       /\ config' = saveBaseConfig(config,
                      [sync[caller].currentConfig EXCEPT !.lastSyncTime = sync[caller].timestamp])
       /\ \E reportOutcome \in ReportOutcomes :
            LET added == IF DOMAIN sync[caller].encryptedDataMap = {}
                         THEN [threw |-> FALSE, reports |-> {}]
                         ELSE addReports(sync[caller].syncReports, sync[caller].result, reportOutcome)
            IN /\ reports' = added.reports
               /\ syncResult' = IF added.threw
                                THEN [success |-> FALSE, message |-> "addReport"]
                                ELSE sync[caller].result
       /\ sync' = [sync EXCEPT ![caller] = NoSync]
  /\ UNCHANGED <<envelopeVars, libraryVars, pageVars, messageVars, aggregatorVars, sealLog>>

\* handleConfirmKeyChange: the new key pair, and getBaseConfig
KeyChangeRead ==
  /\ keyChange.pc = "idle"
  /\ \E newPrivateKey \in NewPrivateKeys :
       /\ config.privateKey # newPrivateKey
       /\ keyChange' = [pc |-> "write", currentConfig |-> config,
                        newPrivateKey |-> newPrivateKey]
  /\ UNCHANGED <<envelopeVars, libraryVars, aggregatorVars, syncVars, messageVars>>

\* handleConfirmKeyChange: saveBaseConfig({...currentConfig, privateKey})
KeyChangeWrite ==
  /\ keyChange.pc = "write"
  /\ config' = saveBaseConfig(config,
                 [keyChange.currentConfig EXCEPT !.privateKey = keyChange.newPrivateKey])
  /\ keyChange' = NoKeyChange
  /\ UNCHANGED <<envelopeVars, libraryVars, aggregatorVars, messageVars>>
  /\ UNCHANGED <<sync, syncResult, sealLog, reports>>

\* handleMessage(message, sender, sendResponse), up to the return of the
\* handler: the arguments of the message are the domain and whether there is
\* a tab id
HandleMessage ==
  /\ msg.pc # "pending"
  /\ \E senderId \in SenderIds, type \in MessageTypes :
       LET answered(response) ==
             msg' = [sender |-> senderId, type |-> type, handler |-> route(type),
                     pc |-> "done", responses |-> <<response>>]
           pending ==
             msg' = [sender |-> senderId, type |-> type, handler |-> route(type),
                     pc |-> "pending", responses |-> <<>>]
           unchanged == UNCHANGED <<domainStates, lastExtractTime, sync, syncResult, sealLog, reports>>
       IN IF rejects(senderId)
          THEN answered(Rejected) /\ unchanged
          ELSE IF route(type) = "none"
          THEN answered(UnknownType) /\ unchanged
          ELSE IF route(type) = "handleSyncActions"
          THEN /\ sync["message"].pc = "idle"
               /\ startSync("message", type = "NORMAL_SYNC")
               /\ pending
          ELSE IF type = "GET_TAB_DOMAINS"
          THEN (\E tabId \in BOOLEAN : IF tabId THEN pending ELSE answered(MissingArgument))
               /\ unchanged
          ELSE IF type = "GET_DOMAIN_DATA"
          THEN \E domain \in Domains \cup {""} :
               IF domain = ""
               THEN answered(MissingArgument) /\ unchanged
               ELSE LET out == extractDomainData(domainStates, lastExtractTime, FALSE, now)
                    IN /\ domainStates' = out.domainStates
                       /\ lastExtractTime' = out.lastExtractTime
                       /\ pending
                       /\ UNCHANGED <<sync, syncResult, sealLog, reports>>
          ELSE pending /\ unchanged
  /\ UNCHANGED <<envelopeVars, libraryVars, pageVars, now, reply, config>>

\* the promise of the handler settles and sendResponse is called; the
\* handlers of CLEAR_REPORTS and CLEAR_ALL_DATA clear what they clear
Respond ==
  /\ msg.pc = "pending"
  /\ \E outcome \in ReportOutcomes :
       LET answered(response) == msg' = [msg EXCEPT !.pc = "done", !.responses = <<response>>]
           done == IF outcome = "ok" THEN Succeeded ELSE Failed
           unchanged == UNCHANGED <<domainStates, lastExtractTime, config, reports>>
       IN IF msg.handler = "handleSyncActions"
          THEN /\ sync["message"].pc = "idle"
               /\ answered([success |-> IF syncResult.success THEN "true" ELSE "false",
                             message |-> syncResult.message])
               /\ unchanged
          ELSE IF msg.type = "CLEAR_REPORTS"
          THEN /\ answered(done)
               /\ reports' = IF outcome = "ok" THEN {} ELSE reports
               /\ UNCHANGED <<domainStates, lastExtractTime, config>>
          ELSE IF msg.type = "CLEAR_ALL_DATA"
          THEN /\ answered(done)
               /\ config' = DefaultConfig
               /\ reports' = IF outcome = "ok" THEN {} ELSE reports
               /\ domainStates' = IF outcome = "ok" THEN <<>> ELSE domainStates
               /\ lastExtractTime' = IF outcome = "ok" THEN now ELSE lastExtractTime
          ELSE IF msg.type = "GET_DOMAIN_DATA"
          THEN answered(Succeeded) /\ unchanged
          ELSE answered(done) /\ unchanged
  /\ UNCHANGED <<envelopeVars, libraryVars, pageVars, now, reply, sync, syncResult, sealLog>>

NextAggregator ==
  \/ Tick
  \/ HandleCookieChange
  \/ HandleRequestHeaders
  \/ HandleGetDomainData
  \/ SyncStart
  \/ SyncEncrypt

SpecAggregator == Init /\ [][NextAggregator]_vars

NextSync ==
  \/ Tick
  \/ SaveConfig
  \/ HandleCookieChange
  \/ HandleRequestHeaders
  \/ SyncStart
  \/ SyncEncrypt
  \/ SyncUpload
  \/ SyncRecord

SpecSync == Init /\ [][NextSync]_vars

\* the configured extension with its auto-sync timer, on sites that send no
\* header of interest
NextTimer ==
  \/ Tick
  \/ SaveConfig
  \/ HandleCookieChange
  \/ SyncStart
  \/ AutoSync
  \/ SyncEncrypt
  \/ SyncUpload
  \/ SyncRecord

SpecTimer == Init /\ [][NextTimer]_vars

\* the configured extension while the options page changes the key pair
NextConfig ==
  \/ Tick
  \/ SaveConfig
  \/ HandleCookieChange
  \/ SyncStart
  \/ SyncEncrypt
  \/ SyncUpload
  \/ SyncRecord
  \/ KeyChangeRead
  \/ KeyChangeWrite

SpecConfig == Init /\ [][NextConfig]_vars

\* the configured extension and the messages it receives, one at a time; the
\* promises of storage, IndexedDB and fetch settle
NextMessages ==
  \/ SaveConfig
  \/ HandleCookieChange
  \/ HandleMessage
  \/ Respond
  \/ SyncEncrypt
  \/ SyncUpload
  \/ SyncRecord

\* SyncEncrypt is enabled exactly while the call of the message is at its
\* encryption and every step of it leaves that place: its weak fairness is
\* that the call is not at its encryption for ever
EncryptionSettles == []<>(sync["message"].pc # "encrypt")

SpecMessages ==
  /\ Init /\ [][NextMessages]_vars
  /\ WF_vars(Respond) /\ WF_vars(SyncUpload) /\ WF_vars(SyncRecord)
  /\ EncryptionSettles

(***************************************************************************)
(* The claims.                                                              *)
(***************************************************************************)
Range(seq) == {seq[i] : i \in 1..Len(seq)}
Finished == call.pc \in {"done", "failed"}
\* the call names the key that sealed as the sender
SenderNamed == call.senderPublicKey = PublicOf(sealed.sender)
\* the caller's key pair is one the envelope was sealed for
CallerIntended == PublicOf(call.recipientPrivateKey) \in Range(sealed.recipients)
\* what verify answers for the envelope as it is, under the sender the call names
SignatureCheck == verify(call.senderPublicKey, dataToSign(env), env.signature)
DecryptionOps == {"derive", "unwrap", "decrypt"}

\* C1: an envelope of the multi-recipient seal, unchanged, opened by any of
\* its recipients under the sealer's public key, yields exactly the plaintext
\* that was sealed (plaintexts being well-formed strings).
RoundTripMany ==
  (env.kind = "multi" /\ tampered = "none" /\ Finished /\ SenderNamed /\ CallerIntended)
    => (call.pc = "done" /\ call.result = sealed.plain)

RoundTripManyWitness ==
  /\ env.kind = "multi" /\ tampered = "none" /\ SenderNamed
  /\ Len(sealed.recipients) = 2
  /\ sealed.recipients[1] # sealed.recipients[2]
  /\ PublicOf(call.recipientPrivateKey) = sealed.recipients[1]
  /\ call.pc = "done"
  /\ call.result = sealed.plain
  /\ sealed.plain = <<233>>

\* C2: an envelope of the single-recipient seal, unchanged, opened by its
\* recipient under the sealer's public key, yields exactly the plaintext that
\* was sealed.
RoundTripSingle ==
  (env.kind = "single" /\ tampered = "none" /\ Finished /\ SenderNamed /\ CallerIntended)
    => (call.pc = "done" /\ call.result = sealed.plain)

RoundTripSingleWitness ==
  /\ env.kind = "single" /\ tampered = "none" /\ SenderNamed /\ CallerIntended
  /\ call.pc = "done"
  /\ call.result = sealed.plain
  /\ sealed.plain = <<233>>

\* C3: after a change of one character of the envelope's data or of its
\* signature, opening fails, and fails with the SignatureInvalid error.
TamperDetected ==
  (tampered \in {"data", "signature"} /\ Finished)
    => (call.pc = "failed" /\ call.error = SignatureInvalid)

\* C4: an unchanged multi-recipient envelope, opened under the sealer's
\* public key with a private key whose public key is not in the recipient
\* list, fails with NotAnIntendedRecipient and yields no plaintext.
Exclusion ==
  (env.kind = "multi" /\ tampered = "none" /\ Finished /\ SenderNamed /\ ~CallerIntended)
    => (/\ call.pc = "failed"
        /\ call.error = NotAnIntendedRecipient
        /\ call.result = <<>>)

\* the caller's key is the negation of a recipient's: same x coordinate, same
\* shared secret, another public key
ExclusionWitness ==
  /\ env.kind = "multi" /\ tampered = "none" /\ SenderNamed
  /\ call.recipientPrivateKey = CurveN - 1
  /\ sealed.recipients = <<PublicOf(1), PublicOf(2)>>
  /\ call.pc = "failed"
  /\ call.error = NotAnIntendedRecipient

\* C5: a call gets past the signature check only if the private key of the
\* sender it names has signed this envelope's {ephPubKey, data}; an envelope
\* whose ephPubKey was replaced, or that only other keys have signed, is
\* rejected.
SignedByNamedSender ==
  \E d \in 1..(CurveN - 1) :
    /\ PublicOf(d) = call.senderPublicKey
    /\ <<d, env.ephPubKey, env.data>> \in signedLog
Authenticity ==
  /\ call.pc \in {"lookup", "derive", "unwrap", "decrypt", "done"} => SignedByNamedSender
  /\ (Finished /\ ~SignedByNamedSender) => (call.pc = "failed" /\ call.result = <<>>)
  /\ (Finished /\ tampered = "ephPubKey")
       => (call.pc = "failed" /\ call.error = SignatureInvalid)

\* opened under the key of the relay that signed the envelope again
AuthenticityWitness ==
  /\ tampered = "resigned"
  /\ call.pc = "done"
  /\ call.senderPublicKey # PublicOf(sealed.sender)

\* C6: no ECDH derivation, unwrapping or decryption is executed before the
\* signature check has succeeded; when the check does not succeed the call
\* has failed after verify alone and holds no derived key and no result.
VerifyBeforeDecrypt ==
  /\ \A i \in 1..Len(ops) :
       ops[i] \in DecryptionOps => (i > 1 /\ ops[1] = "verify" /\ SignatureCheck = "true")
  /\ (call.pc \notin {"idle", "verify"} /\ SignatureCheck # "true")
       => /\ call.pc = "failed"
          /\ ops = <<"verify">>
          /\ call.sharedSecretKey = <<>>
          /\ call.decryptedKey = <<>>
          /\ call.result = <<>>

VerifyBeforeDecryptWitness ==
  /\ tampered = "data"
  /\ CallerIntended
  /\ call.pc = "failed"
  /\ call.error = SignatureInvalid
  /\ ops = <<"verify">>

\* C7: in the multi-recipient opening, a caller without a shareKeys entry
\* gets the SignatureInvalid error, after verify alone, when the signature
\* is not valid, and NotAnIntendedRecipient, after verify and the lookup
\* alone, when it is.
CallerHasEntry ==
  keyHashOf(env.ephPubKey, PublicOf(call.recipientPrivateKey)) \in DOMAIN env.shareKeys
LookupAfterVerify ==
  (env.kind = "multi" /\ Finished /\ ~CallerHasEntry)
    => IF SignatureCheck = "true"
       THEN call.error = NotAnIntendedRecipient /\ ops = <<"verify", "lookup">>
       ELSE call.error = SignatureInvalid /\ ops = <<"verify">>

\* C8 as claimed: the envelope of the multi-recipient seal has as many
\* shareKeys entries as the recipient list has elements.
ShareKeysCountIsListLength ==
  (env.kind = "multi" /\ tampered = "none")
    => Cardinality(DOMAIN env.shareKeys) = Len(sealed.recipients)

\* C8, amended: the envelope of the multi-recipient seal has as many
\* shareKeys entries as the recipient list has distinct public keys, and the
\* identifier the opening recomputes from a recipient's private key is the
\* one its entry is stored under.
OneShareKeyPerRecipient ==
  (env.kind = "multi" /\ tampered = "none")
    => /\ Cardinality(DOMAIN env.shareKeys) = Cardinality(Range(sealed.recipients))
       /\ (call.pc \in {"derive", "unwrap", "decrypt", "done"} /\ CallerIntended)
            => call.keyHash \in DOMAIN env.shareKeys
       /\ (Finished /\ CallerIntended) => call.error # NotAnIntendedRecipient

OneShareKeyPerRecipientWitness ==
  /\ env.kind = "multi" /\ tampered = "none"
  /\ Len(sealed.recipients) = 2
  /\ sealed.recipients[1] = sealed.recipients[2]
  /\ Cardinality(DOMAIN env.shareKeys) = 1
  /\ CallerIntended
  /\ call.pc = "derive"
  /\ call.keyHash \in DOMAIN env.shareKeys

\* C9: the multi-recipient envelope has one ciphertext, the encryption of the
\* plaintext under the one content key, and every recipient's shareKeys
\* entry unwraps under that recipient's shared secret to that same key.
OneContentKey ==
  (env.kind = "multi" /\ tampered = "none")
    => /\ AesDecrypt(env.data, sealed.aesKey, TRUE) = Utf8Parse(sealed.plain)
       /\ \A d \in PrivKeys :
            PublicOf(d) \in Range(sealed.recipients)
              => AesDecrypt(env.shareKeys[keyHashOf(env.ephPubKey, PublicOf(d))],
                            sharedSecretKey(d, env.ephPubKey), FALSE) = sealed.aesKey
       /\ (call.pc \in {"decrypt", "done"} /\ SenderNamed)
            => call.decryptedKey = sealed.aesKey

OneContentKeyWitness ==
  /\ env.kind = "multi" /\ tampered = "none" /\ SenderNamed
  /\ Len(sealed.recipients) = 2
  /\ sealed.recipients[1] # sealed.recipients[2]
  /\ PublicOf(call.recipientPrivateKey) = sealed.recipients[2]
  /\ call.pc = "decrypt"
  /\ call.decryptedKey = sealed.aesKey

\* C10: after shareKeys entries were removed from or added to a
\* multi-recipient envelope, the signature is still valid under the sealer's
\* key, and a recipient whose own entry is still there opens the envelope to
\* the sealed plaintext.
SignatureScope ==
  (env.kind = "multi" /\ tampered \in {"dropped", "added"})
    => /\ verify(PublicOf(sealed.sender), dataToSign(env), env.signature) = "true"
       /\ (Finished /\ SenderNamed /\ CallerIntended /\ CallerHasEntry)
            => (call.pc = "done" /\ call.result = sealed.plain)

SignatureScopeWitness ==
  /\ env.kind = "multi" /\ tampered = "dropped" /\ SenderNamed
  /\ Len(sealed.recipients) = 2
  /\ Cardinality(DOMAIN env.shareKeys) = 1
  /\ CallerIntended
  /\ call.pc = "done"
  /\ call.result = sealed.plain
  /\ sealed.plain = <<97>>

\* C11: an opening call that unwrapped a content key other than the one the
\* envelope was sealed with fails, and returns no string.
WrongKeyIsError ==
  (env.kind = "multi" /\ tampered = "replaced" /\ Finished /\ SenderNamed
     /\ "unwrap" \in Range(ops) /\ call.decryptedKey # sealed.aesKey)
    => (call.pc = "failed" /\ call.result = <<>>)

AllPairsAgree ==
  \A e \in 1..(CurveN - 1), r \in 1..(CurveN - 1) :
    /\ sharedSecretKey(e, PublicOf(r)) = sharedSecretKey(r, PublicOf(e))
    /\ 2 * Len(sharedSecretKey(e, PublicOf(r))) = SecretHexLen
EcdhAgreement ==
  /\ AllPairsAgree
  /\ ("derive" \in Range(ops) /\ call.pc # "failed"
        /\ env.ephPubKey = PublicOf(sealed.ephemeral))
       => call.sharedSecretKey
            = sharedSecretKey(sealed.ephemeral, PublicOf(call.recipientPrivateKey))

\* the shared x coordinate has one hex digit: three leading zeros are added
EcdhAgreementWitness ==
  /\ tampered = "none" /\ SenderNamed /\ CallerIntended
  /\ call.pc = "done"
  /\ Len(ToHex(derive(sealed.ephemeral, Decompress(PublicOf(call.recipientPrivateKey))))) = 1
  /\ call.sharedSecretKey
       = sharedSecretKey(sealed.ephemeral, PublicOf(call.recipientPrivateKey))
  /\ call.sharedSecretKey[1] = 0
  /\ call.result = sealed.plain

\* the calls of the sealing functions, and of the opening functions, so far
SealCalls == {i \in 1..Len(history) : history[i].op \in {"seal", "sealMany"}}
OpenCalls == {i \in 1..Len(history) : history[i].op \in {"open", "openMany"}}
\* the key the data of a sealing call was encrypted under
CodecKey(h) ==
  IF h.op = "sealMany" THEN h.aesKey
  ELSE sharedSecretKey(h.ephemeral, h.recipients[1])

\* C14: no two envelopes the sealing functions have returned carry the same
\* ephPubKey; every recipient's entry of a multi-recipient envelope unwraps,
\* under the secret shared with the envelope's one ephPubKey, to the content
\* key; and no call leaves the ephemeral private key behind: the module-level
\* bindings are what they were.
EphemeralFresh ==
  /\ \A i \in SealCalls, j \in SealCalls :
       i # j => history[i].envelope.ephPubKey # history[j].envelope.ephPubKey
  /\ \A i \in SealCalls :
       LET h == history[i]
           e == h.envelope
       IN /\ e.ephPubKey = PublicOf(h.ephemeral)
          /\ h.op = "sealMany" =>
               \A d \in CallPrivKeys :
                 PublicOf(d) \in Range(h.recipients)
                   => /\ keyHashOf(e.ephPubKey, PublicOf(d)) \in DOMAIN e.shareKeys
                      /\ AesDecrypt(e.shareKeys[keyHashOf(e.ephPubKey, PublicOf(d))],
                                    sharedSecretKey(d, e.ephPubKey), FALSE) = h.aesKey
  /\ module = ModuleInit

\* two calls of the multi-recipient seal with the same arguments and the
\* same content key
EphemeralFreshWitness ==
  /\ Len(history) >= 2
  /\ history[1].op = "sealMany" /\ history[2].op = "sealMany"
  /\ Len(history[1].recipients) = 2
  /\ history[1].recipients = history[2].recipients
  /\ history[1].data = history[2].data
  /\ history[1].aesKey = history[2].aesKey
  /\ history[1].envelope.ephPubKey # history[2].envelope.ephPubKey
  /\ module = ModuleInit

\* C16: the data of an envelope is the CBC encryption of the padded
\* plaintext with the first block of the key as iv, so that two sealing calls
\* with the same key and the same plaintext return the same ciphertext,
\* whatever their ephemeral keys, and two calls with the same plaintext and
\* different ciphertexts have different keys.
CodecDeterministic ==
  /\ \A i \in SealCalls :
       LET h == history[i]
           key == CodecKey(h)
       IN h.envelope.data
            = Base64Stringify(CbcEncrypt(key, key[1], Pkcs7Pad(Utf8Parse(h.data))))
  /\ \A i \in SealCalls, j \in SealCalls :
       (history[i].data = history[j].data)
         => (CodecKey(history[i]) = CodecKey(history[j])
               => history[i].envelope.data = history[j].envelope.data)

\* the same content key drawn by two calls whose ephemeral keys differ: the
\* ciphertexts are equal, the wrapped keys are not
CodecDeterministicWitness ==
  /\ Len(history) = 3
  /\ history[1].op = "sealMany" /\ history[2].op = "sealMany" /\ history[3].op = "seal"
  /\ history[1].aesKey = history[2].aesKey
  /\ history[1].data = <<233>> /\ history[2].data = <<233>>
  /\ history[1].ephemeral # history[2].ephemeral
  /\ history[1].envelope.data = history[2].envelope.data
  /\ history[1].envelope.shareKeys # history[2].envelope.shareKeys

\* C17: a call leaves the module-level bindings as they were, and what it
\* returns or throws is what the function computes from its arguments and
\* its random draws alone, whatever calls came before: two opening calls
\* with the same arguments have the same outcome.
Stateless ==
  /\ module = ModuleInit
  /\ \A i \in 1..Len(history) :
       LET h == history[i]
       IN /\ h.op = "seal" =>
               h.envelope = encryptAndSign(h.recipients[1], h.senderPrivateKey,
                                           h.data, h.ephemeral)
          /\ h.op = "sealMany" =>
               h.envelope = encryptAndSignForMultipleRecipients(h.recipients,
                              h.senderPrivateKey, h.data, h.ephemeral, h.aesKey)
          /\ h.op = "open" =>
               h.outcome = verifyAndDecrypt(h.recipientPrivateKey, h.senderPublicKey,
                                            h.envelope)
          /\ h.op = "openMany" =>
               h.outcome = verifyAndDecryptForMultipleRecipients(h.recipientPrivateKey,
                             h.senderPublicKey, h.envelope)
  /\ \A i \in OpenCalls, j \in OpenCalls :
       (/\ history[i].op = history[j].op
        /\ history[i].recipientPrivateKey = history[j].recipientPrivateKey
        /\ history[i].senderPublicKey = history[j].senderPublicKey
        /\ history[i].envelope = history[j].envelope)
         => history[i].outcome = history[j].outcome

\* the envelope is opened by its recipient and then by another key pair
StatelessWitness ==
  /\ Len(history) = 3
  /\ history[1].op = "sealMany" /\ history[2].op = "openMany" /\ history[3].op = "openMany"
  /\ history[1].recipients = <<PublicOf(1)>>
  /\ history[2].recipientPrivateKey = 1
  /\ history[2].outcome = Returned(history[1].data)
  /\ history[3].recipientPrivateKey = 2
  /\ history[3].outcome = Threw(NotAnIntendedRecipient)

\* C13: the multi-recipient seal is never called with an empty recipient
\* list; every envelope of the map encryptDomainDataBatch returned has a
\* shareKeys entry, and a domain whose list of peer keys is empty has no
\* entry in the map.
NoSealForNoRecipients ==
  /\ <<>> \notin sealLog
  /\ \A d \in DOMAIN sync["message"].encryptedDataMap :
       /\ DOMAIN sync["message"].encryptedDataMap[d].shareKeys # {}
       /\ Len(config.peers[d]) # 0
  /\ sync["message"].pc = "upload" =>
       \A d \in DOMAIN sync["message"].domainDataList :
         Len(config.peers[d]) = 0 => d \notin DOMAIN sync["message"].encryptedDataMap

\* a cookie change of either domain was extracted; one domain has no peers
NoSealForNoRecipientsWitness ==
  /\ sync["message"].pc = "upload"
  /\ DOMAIN sync["message"].domainDataList = Domains
  /\ sync["message"].sinceLastExtract
  /\ \A d \in Domains : sync["message"].domainDataList[d].cookieUpdated
  /\ config.peers["b.example"] = <<>>
  /\ DOMAIN sync["message"].encryptedDataMap = {"a.example"}
  /\ sealLog = {config.peers["a.example"]}

\* what an extractDomainData(true) made in these states would return
Pending(states, lastExtract, t) == extractDomainData(states, lastExtract, TRUE, t).result

\* C18: when handleCookieChange or handleRequestHeaders has recorded an
\* event for a domain, later than the last extraction, an
\* extractDomainData(true) made next returns an entry for the domain, with
\* cookieUpdated set when the event was a cookie change.
ExtractionMissesNothing ==
  [][\A d \in Domains :
       /\ (now > lastExtractTime /\ HandleCookieChange
             /\ domainStates' = handleCookieChange(domainStates, d, now))
            => /\ d \in DOMAIN Pending(domainStates', lastExtractTime', now')
               /\ Pending(domainStates', lastExtractTime', now')[d].cookieUpdated
       /\ (now > lastExtractTime /\ HandleRequestHeaders
             /\ \E k \in HeaderKeys, v \in HeaderValues :
                  domainStates' = handleRequestHeaders(domainStates, d, k, v, now))
            => d \in DOMAIN Pending(domainStates', lastExtractTime', now')]_vars

\* C19: when a call of syncDomainData(true) ends without success, the
\* changes it had extracted are pending again: an extractDomainData(true)
\* made next returns every domain of its list, with the cookie flag and the
\* header keys the list had.
ChangesSurviveFailedUpload ==
  [][(sync["message"].pc \in {"encrypt", "upload"} /\ sync["message"].sinceLastExtract
        /\ sync'["message"].pc = "idle" /\ ~syncResult'.success)
      => \A d \in DOMAIN sync["message"].domainDataList :
           (sync["message"].domainDataList[d].cookieUpdated \/ sync["message"].domainDataList[d].updatedHeaderKeys # {})
             => /\ d \in DOMAIN Pending(domainStates', lastExtractTime', now')
                /\ sync["message"].domainDataList[d].cookieUpdated
                     => Pending(domainStates', lastExtractTime', now')[d].cookieUpdated
                /\ sync["message"].domainDataList[d].updatedHeaderKeys
                     \subseteq Pending(domainStates', lastExtractTime', now')[d].updatedHeaderKeys]_vars

\* C20: the handling of a GET_DOMAIN_DATA message changes neither the flags
\* of any domain nor lastExtractTime.
QueryIsReadOnly ==
  [][HandleGetDomainData => (domainStates' = domainStates /\ lastExtractTime' = lastExtractTime)]_vars

\* C21: at most one call of syncDomainData is in progress: the call of a
\* message and the call of the auto-sync timer are never both between their
\* extraction and their return.
OneSyncAtATime ==
  ~(sync["message"].pc # "idle" /\ sync["timer"].pc # "idle")

\* whether the callback of the auto-sync timer would call syncDomainData
autoSyncDue(cfg, t) == cfg.enableAutoSync /\ t - cfg.lastSyncTime >= cfg.syncInterval

\* C25: the timer starts a sync only when enableAutoSync is set and
\* syncInterval has passed since lastSyncTime, and when a sync of the timer
\* has returned success = true the timer would not start the next one
\* sooner than syncInterval after the start of this one.
AutoSyncPacing ==
  [][/\ AutoSync => autoSyncDue(config, now)
     /\ (AutoSync /\ sync'["timer"].pc = "idle" /\ syncResult'.success)
          => ~autoSyncDue(config', now')
     /\ (sync["timer"].pc = "record" /\ sync'["timer"].pc = "idle" /\ syncResult'.success)
          => (autoSyncDue(config', now') => now' - sync["timer"].started >= config'.syncInterval)]_vars

\* C22: when a call of syncDomainData has stored its reports, every report
\* with success = true is of a domain whose envelope was in the payload the
\* endpoint accepted, every report stored after a failed upload has
\* success = false and an error message, and every envelope of the payload
\* has exactly one report.
ReportsMatchUpload ==
  [][\A caller \in Callers :
       (sync[caller].pc \in {"upload", "record"} /\ sync'[caller].pc = "idle"
          /\ syncResult'.message # "addReport")
        => /\ \A r \in reports' :
                r.success => /\ sync[caller].pc = "record"
                             /\ r.domain \in DOMAIN sync[caller].encryptedDataMap
           /\ sync[caller].pc = "upload"
                => \A r \in reports' : ~r.success /\ r.errorMessage # ""
           /\ \A d \in DOMAIN sync[caller].encryptedDataMap :
                Cardinality({r \in reports' : r.domain = d}) = 1]_vars

\* a call of syncDomainData returns in this step, from the given position
Returns(caller, pc) == sync[caller].pc = pc /\ sync'[caller].pc = "idle"

\* C23 as stated: whenever a call of syncDomainData returns
\* success = false, after a failed upload or a caught exception,
\* lastSyncTime has kept the value it had.
LastSyncTimeKeptOnFailure ==
  [][\A caller \in Callers :
       (sync[caller].pc # "idle" /\ sync'[caller].pc = "idle" /\ ~syncResult'.success)
         => config'.lastSyncTime = config.lastSyncTime]_vars

\* C23: lastSyncTime is written only by a call of syncDomainData whose
\* upload the endpoint accepted or whose encryption left nothing to send,
\* with the timestamp of that call; a call that returns after a failed
\* upload or after encryptDomainDataBatch threw leaves lastSyncTime as it
\* was and returns success = false; a call whose addReport throws after the
\* upload was accepted returns success = false with lastSyncTime written.
LastSyncTimeWrittenOnSuccess ==
  [][/\ config'.lastSyncTime # config.lastSyncTime
          => \E caller \in Callers :
               /\ Returns(caller, "record")
               /\ sync[caller].result.message \in {"sent", "nothing to send"}
               /\ config'.lastSyncTime = sync[caller].timestamp
     /\ \A caller \in Callers :
          /\ (Returns(caller, "upload") \/ Returns(caller, "encrypt"))
               => (config'.lastSyncTime = config.lastSyncTime /\ ~syncResult'.success)
          /\ (Returns(caller, "record") /\ ~syncResult'.success)
               => (syncResult'.message = "addReport"
                   /\ config'.lastSyncTime = sync[caller].timestamp)]_vars

\* a sync was accepted in minute 1, and the upload of the next one, in
\* minute 2, failed: lastSyncTime is still 1
LastSyncTimeWrittenOnSuccessWitness ==
  /\ now = 2
  /\ config.lastSyncTime = 1
  /\ syncResult = [success |-> FALSE, message |-> "HTTP error"]
  /\ \E r \in reports : ~r.success
  /\ \A caller \in Callers : sync[caller].pc = "idle"

\* C24: no update of the base configuration is lost: the write of
\* updateBaseConfig({lastSyncTime}) leaves the private key that is stored,
\* and the write of the options page leaves the lastSyncTime that is stored.
NoLostConfigUpdate ==
  [][/\ (\E caller \in Callers : Returns(caller, "record"))
          => config'.privateKey = config.privateKey
     /\ (keyChange.pc = "write" /\ keyChange'.pc = "idle")
          => config'.lastSyncTime = config.lastSyncTime]_vars

====
